---- MODULE Spec2Model ----
(***************************************************************************)
(* Model of the CSV validation and reporting pipeline of                   *)
(* mlh-counting-to-1-billion-analysis: csv_validator.py, metrics.py,       *)
(* visualizations.py and the entry script app.py.                          *)
(*                                                                         *)
(* Strings that the code inspects character by character (column headers)  *)
(* are sequences of one-character strings.  A date cell is the day and the *)
(* hour it names; parsed, it is a timestamp counted in hours, and          *)
(* strftime("%Y-%m-%d") keeps the day of a timestamp and drops its time.   *)
(***************************************************************************)
EXTENDS Integers, Sequences, FiniteSets, TLC

VARIABLES file, df, required_columns, pc, column_mapping, calls, screen,
          result, metrics, ret

vars == <<file, df, required_columns, pc, column_mapping, calls, screen,
          result, metrics, ret>>

(***************************************************************************)
(* Bounds of the model                                                     *)
(***************************************************************************)
MaxHeaders == 2
MaxRequired == 2
MaxRows == 2
MaxDates == 4

\* Input domains: calendar days, times of day (hours), numeric cell values.
Days == {1, 2}
Hours == {0, 12}
Values == {0, 1}
Counts == {0, 1, 2}

\* Python's None, and the two cells that are no number: an empty cell (NaN
\* once read) and text.  A number n is the cell [num |-> n].
None == [none |-> TRUE]
NaN == [nan |-> TRUE]
Text == [text |-> TRUE]

(***************************************************************************)
(* str.strip and str.lower                                                 *)
(***************************************************************************)
IsSpace(c) == c = " "

ToLowerChar(c) ==
  CASE c = "D" -> "d"
    [] c = "F" -> "f"
    [] c = "T" -> "t"
    [] c = "C" -> "c"
    [] c = "X" -> "x"
    [] OTHER -> c

lower(s) == [i \in 1..Len(s) |-> ToLowerChar(s[i])]

RECURSIVE lstrip(_)
lstrip(s) == IF s # <<>> /\ IsSpace(Head(s)) THEN lstrip(Tail(s)) ELSE s

RECURSIVE rstrip(_)
rstrip(s) ==
  IF s # <<>> /\ IsSpace(s[Len(s)]) THEN rstrip(SubSeq(s, 1, Len(s) - 1)) ELSE s

strip(s) == rstrip(lstrip(s))

(***************************************************************************)
(* validate_columns                                                        *)
(***************************************************************************)
\* {col.strip().lower(): col for col in df.columns}: a later header with the
\* same key replaces an earlier one.
column_lookup(columns) ==
  LET key(i) == lower(strip(columns[i]))
      last(k) == CHOOSE i \in DOMAIN columns :
                   /\ key(i) = k
                   /\ \A j \in DOMAIN columns : j > i => key(j) # k
  IN  [k \in {key(i) : i \in DOMAIN columns} |-> columns[last(k)]]

validate_columns_nolower(columns, required) ==
  LET lookup == column_lookup(columns)
      found(r) == r \in DOMAIN lookup
  IN  [column_mapping |->
         [r \in {required[i] : i \in {j \in DOMAIN required : found(required[j])}}
            |-> lookup[r]],
       missing_columns |-> SelectSeq(required, LAMBDA r : ~found(r))]

validate_columns(columns, required) ==
  LET lookup == column_lookup(columns)
      found(r) == lower(r) \in DOMAIN lookup
  IN  [column_mapping |->
         [r \in {required[i] : i \in {j \in DOMAIN required : found(required[j])}}
            |-> lookup[lower(r)]],
       missing_columns |-> SelectSeq(required, LAMBDA r : ~found(r))]

(***************************************************************************)
(* The table (pandas DataFrame) and the conversions applied to a column    *)
(***************************************************************************)
DateName == <<"d", "a", "t", "e">>
FromName == <<"f", "r", "o", "m">>
ToName == <<"t", "o">>
CountName == <<"c", "o", "u", "n", "t">>

\* df[col]: the cells of the column whose header is col, in row order.
Column(d, col) ==
  LET j == CHOOSE k \in DOMAIN d.columns : d.columns[k] = col
  IN  [i \in 1..Len(d.rows) |-> d.rows[i][j]]

\* seq[mask]: the elements at the positions where mask holds, in order.
RECURSIVE Mask(_, _)
Mask(seq, mask) ==
  IF seq = <<>> THEN <<>>
  ELSE (IF Head(mask) THEN <<Head(seq)>> ELSE <<>>) \o Mask(Tail(seq), Tail(mask))

\* pd.to_datetime raises ValueError when a cell is no date.
to_datetime_raises(col) == \E i \in DOMAIN col : col[i] = Text

\* The parsed column: a date cell [day, hour] becomes a timestamp in hours.
to_datetime(col) == [i \in DOMAIN col |-> col[i].day * 24 + col[i].hour]

\* dt.strftime("%Y-%m-%d"): the day of the timestamp, without its time.
strftime(ts) == ts \div 24

is_numeric_dtype(col) == col # <<>> /\ \A i \in DOMAIN col : col[i] # Text

to_numeric_raises(col) == \E i \in DOMAIN col : col[i] = Text

\* pd.to_numeric on a column of numbers: the numbers.
to_numeric(col) == [i \in DOMAIN col |-> col[i].num]

to_numeric_coerce(col) == [i \in DOMAIN col |-> IF col[i] = Text THEN NaN ELSE col[i]]

isna_any(col) == \E i \in DOMAIN col : col[i] = NaN

\* df.head(): the first five rows.
head(d) == SubSeq(d.rows, 1, IF Len(d.rows) < 5 THEN Len(d.rows) ELSE 5)

(***************************************************************************)
(* validate_data_types                                                     *)
(***************************************************************************)
validate_data_types(d, cm) ==
  LET numeric_error(expected_name) ==
        LET actual_col == cm[expected_name]
        IN  IF ~is_numeric_dtype(Column(d, actual_col))
               /\ to_numeric_raises(Column(d, actual_col))
            THEN <<[msg |-> "must_contain_numeric_values", col |-> actual_col,
                    expected |-> expected_name]>>
            ELSE <<>>
  IN  (IF to_datetime_raises(Column(d, cm[DateName]))
       THEN <<[msg |-> "contains_invalid_dates", col |-> cm[DateName]]>>
       ELSE <<>>)
      \o numeric_error(FromName) \o numeric_error(ToName) \o numeric_error(CountName)

(***************************************************************************)
(* validate_date_duplicates                                                *)
(***************************************************************************)
\* Series.duplicated(): true at every occurrence of a value but its first.
duplicated(s) == [i \in DOMAIN s |-> \E j \in 1..(i - 1) : s[j] = s[i]]

\* Series.unique(): the distinct values in order of appearance.
unique(s) == Mask(s, [i \in DOMAIN s |-> \A j \in 1..(i - 1) : s[j] # s[i]])

strftime_list(s) == [i \in DOMAIN s |-> strftime(s[i])]

validate_date_duplicates_keep_all(d, cm) ==
  LET df_dates == to_datetime(Column(d, cm[DateName]))
      duplicates == Mask(df_dates, duplicated(df_dates))
  IN  IF duplicates # <<>>
      THEN <<[msg |-> "duplicate_dates", dates |-> strftime_list(duplicates)]>>
      ELSE <<>>

validate_date_duplicates(d, cm) ==
  LET df_dates == to_datetime(Column(d, cm[DateName]))
      duplicates == Mask(df_dates, duplicated(df_dates))
  IN  IF duplicates # <<>>
      THEN <<[msg |-> "duplicate_dates",
              dates |-> strftime_list(unique(duplicates))]>>
      ELSE <<>>

(***************************************************************************)
(* validate_date_ordering                                                  *)
(***************************************************************************)
is_monotonic_increasing_strict(s) == \A i \in 1..(Len(s) - 1) : s[i] < s[i + 1]

is_monotonic_decreasing(s) == \A i \in 1..(Len(s) - 1) : s[i] >= s[i + 1]

\* Series.is_monotonic_increasing: no value is smaller than the one before.
is_monotonic_increasing(s) == \A i \in 1..(Len(s) - 1) : s[i] <= s[i + 1]

validate_date_ordering(d, cm) ==
  LET df_dates == to_datetime(Column(d, cm[DateName]))
  IN  IF ~is_monotonic_increasing(df_dates)
      THEN <<[msg |-> "not_in_chronological_order"]>>
      ELSE <<>>

(***************************************************************************)
(* validate_numeric_rules                                                  *)
(***************************************************************************)
row_dates_all(d, cm, mask) ==
  strftime_list(to_datetime(Column(d, cm[DateName])))

\* pd.to_datetime(rows[date_col]).dt.strftime("%Y-%m-%d").tolist() for the
\* rows df[mask]
row_dates(d, cm, mask) ==
  strftime_list(to_datetime(Mask(Column(d, cm[DateName]), mask)))

invalid_range_never(f, t) == FALSE

\* Rule 1, to >= from, is broken by a row with to < from.
invalid_range(f, t) == t < f

count_mismatch_off_by_one(f, t, c) == c # t - f

\* Rule 2, count = to - from + 1
count_mismatch(f, t, c) == c # t - f + 1

validate_numeric_rules(d, cm) ==
  LET from_values == to_numeric_coerce(Column(d, cm[FromName]))
      to_values == to_numeric_coerce(Column(d, cm[ToName]))
      count_values == to_numeric_coerce(Column(d, cm[CountName]))
      invalid_ranges == [i \in 1..Len(d.rows) |->
                           invalid_range(from_values[i].num, to_values[i].num)]
      mismatched == [i \in 1..Len(d.rows) |->
                       count_mismatch(from_values[i].num, to_values[i].num,
                                      count_values[i].num)]
  IN  IF isna_any(from_values) \/ isna_any(to_values) \/ isna_any(count_values)
      THEN <<[msg |-> "invalid_numeric_values"]>>
      ELSE (IF \E i \in DOMAIN invalid_ranges : invalid_ranges[i]
            THEN <<[msg |-> "to_lt_from", dates |-> row_dates(d, cm, invalid_ranges)]>>
            ELSE <<>>)
           \o (IF \E i \in DOMAIN mismatched : mismatched[i]
               THEN <<[msg |-> "count_mismatch",
                       dates |-> row_dates(d, cm, mismatched)]>>
               ELSE <<>>)

(***************************************************************************)
(* calculate_metrics                                                       *)
(***************************************************************************)
Goal == 1000000000

RECURSIVE Sum(_)
Sum(s) == IF s = <<>> THEN 0 ELSE Head(s) + Sum(Tail(s))

\* Series.max()
Max(s) == CHOOSE m \in {s[i] : i \in DOMAIN s} : \A i \in DOMAIN s : s[i] <= m

\* Series.idxmax(): the first row that attains the maximum.
idxmax(s) == CHOOSE i \in DOMAIN s : s[i] = Max(s) /\ \A j \in 1..(i - 1) : s[j] # Max(s)

\* Series.mean(), kept as the fraction sum / number of rows.
mean(s) == [num |-> Sum(s), den |-> Len(s)]

GreaterThanZero(q) == q.num * q.den > 0

\* Defined on a table with at least one row and no empty numeric cell; on a
\* table without rows idxmax raises ValueError.
calculate_metrics(d, cm) ==
  IF d.rows = <<>> THEN [raised |-> "ValueError"]
  ELSE
  LET to_values == to_numeric(Column(d, cm[ToName]))
      count_values == to_numeric(Column(d, cm[CountName]))
      current_standing == Max(to_values)
      daily_throughput == mean(count_values)
      peak_performance_idx == idxmax(count_values)
      remaining == Goal - current_standing
  IN  [current_standing |-> current_standing,
       completion_percentage |-> [num |-> current_standing * 100, den |-> Goal],
       daily_throughput |-> daily_throughput,
       peak_performance |-> Max(count_values),
       peak_performance_date |->
         to_datetime(Column(d, cm[DateName]))[peak_performance_idx],
       \* (remaining / daily_throughput) / 365.25, kept by its operands
       estimated_completion_years |->
         IF GreaterThanZero(daily_throughput)
         THEN [remaining |-> remaining, daily_throughput |-> daily_throughput]
         ELSE None]

(***************************************************************************)
(* create_progress_chart, create_daily_activity_chart                      *)
(***************************************************************************)
RECURSIVE insert_sorted(_, _)
insert_sorted(p, s) ==
  IF s = <<>> \/ p.date_parsed < Head(s).date_parsed THEN <<p>> \o s
  ELSE <<Head(s)>> \o insert_sorted(p, Tail(s))

\* DataFrame.sort_values("date_parsed")
RECURSIVE sort_values(_)
sort_values(s) ==
  IF s = <<>> THEN <<>>
  ELSE insert_sorted(s[Len(s)], sort_values(SubSeq(s, 1, Len(s) - 1)))

chart_data(d, cm, value_name) ==
  LET dates == to_datetime(Column(d, cm[DateName]))
      values == to_numeric(Column(d, cm[value_name]))
  IN  sort_values([i \in 1..Len(d.rows) |->
                     [date_parsed |-> dates[i], value |-> values[i]]])

create_progress_chart(d, cm) ==
  [mark |-> "line", data |-> chart_data(d, cm, ToName)]

create_daily_activity_chart(d, cm) ==
  [mark |-> "bar", data |-> chart_data(d, cm, CountName)]

(***************************************************************************)
(* Inputs                                                                  *)
(***************************************************************************)
SeqsUpTo(S, n) == UNION {[1..k -> S] : k \in 0..n}

DateCells == {[day |-> d, hour |-> h] : d \in Days, h \in Hours}

RequiredColumns == <<DateName, FromName, ToName, CountName>>

\* Headers of an upload: the logical names as they are, the same names in
\* another casing and padded with blanks, and a table without from and to.
RecasedColumns ==
  << <<" ", "D", "a", "t", "e", " ">>, <<"F", "r", "o", "m">>,
     <<"T", "o", " ">>, <<"C", "o", "u", "n", "t">> >>

ShortColumns == <<DateName, CountName>>

\* Rows of an upload: from and to are numbers; count is to - from + 1, or 0,
\* or an empty cell.
UploadRows ==
  UNION {{<<dt, [num |-> f], [num |-> t], c>> :
            c \in {[num |-> t - f + 1], [num |-> 0], NaN}} :
          dt \in DateCells, f \in Values, t \in Values}

\* The same table with the cell of row 1 in column j replaced by text.
WithText(rows, j) == [rows EXCEPT ![1] = [rows[1] EXCEPT ![j] = Text]]

\* Tables of up to MaxRows rows under the logical headers; one-row tables
\* under the other headers, and with text in a date, from, to or count cell.
UploadTables ==
  LET typed == SeqsUpTo(UploadRows, MaxRows)
      short == SeqsUpTo(UploadRows, 1)
  IN  {[columns |-> RequiredColumns, rows |-> r] : r \in typed}
      \cup {[columns |-> RecasedColumns, rows |-> r] : r \in short}
      \cup {[columns |-> RequiredColumns, rows |-> WithText(r, j)] :
               r \in short \ {<<>>}, j \in 1..4}
      \cup {[columns |-> ShortColumns, rows |-> r] :
               r \in SeqsUpTo({<<dt, [num |-> c]>> : dt \in DateCells, c \in Counts}, 1)}

Uploads ==
  {[kind |-> k] : k \in {"empty", "malformed", "undecodable"}}
  \cup {[kind |-> "csv", table |-> t] : t \in UploadTables}

(***************************************************************************)
(* process_csv_file and the script app.py                                  *)
(***************************************************************************)
st_error(e) == [kind |-> "error", body |-> e]

st_errors(errs) == [i \in DOMAIN errs |-> st_error(errs[i])]

st_stop_missing_after_duplicates(stage) ==
  IF stage = "duplicates" THEN "ordering" ELSE "stopped"

\* st.stop(): the script run ends here, whatever the stage.
st_stop(stage) == "stopped"

\* process_csv_file has not returned yet; no library function was called.
Pending == [pending |-> TRUE]

NotCalled == [fn |-> "none", value |-> None]

Init ==
  /\ file \in Uploads
  /\ df = None
  /\ required_columns = RequiredColumns
  /\ pc = "read"
  /\ column_mapping = None
  /\ calls = <<>>
  /\ screen = <<>>
  /\ result = Pending
  /\ metrics = None
  /\ ret = NotCalled

\* read_csv_file and the except clauses of process_csv_file
ReadCsv ==
  /\ pc = "read"
  /\ calls' = Append(calls, "read_csv_file")
  /\ \/ /\ file.kind = "empty"
        /\ screen' = Append(screen, st_error([msg |-> "file_is_empty"]))
        /\ pc' = "returned" /\ result' = None /\ df' = df
     \/ /\ file.kind = "malformed"
        /\ screen' = Append(screen, st_error([msg |-> "error_parsing_csv"]))
        /\ pc' = "returned" /\ result' = None /\ df' = df
     \/ /\ file.kind = "undecodable"
        /\ screen' = Append(screen, st_error([msg |-> "unexpected_error"]))
        /\ pc' = "returned" /\ result' = None /\ df' = df
     \/ /\ file.kind = "csv"
        /\ df' = file.table
        /\ pc' = "columns"
        /\ UNCHANGED <<screen, result>>
  /\ UNCHANGED <<file, required_columns, column_mapping, metrics, ret>>

ValidateColumns ==
  /\ pc = "columns"
  /\ calls' = Append(calls, "validate_columns")
  /\ LET r == validate_columns(df.columns, required_columns)
     IN  /\ column_mapping' = r.column_mapping
         /\ IF r.missing_columns # <<>>
            THEN /\ screen' = screen \o
                      <<st_error([msg |-> "missing_required_columns",
                                  columns |-> r.missing_columns]),
                        [kind |-> "info", body |-> df.columns]>>
                 /\ pc' = st_stop("columns")
            ELSE /\ screen' = screen
                 /\ pc' = "types"
  /\ UNCHANGED <<file, df, required_columns, result, metrics, ret>>

\* One validation stage of process_csv_file: run the validator, show every
\* message it returned and stop, or go on to the next stage.
Stage(stage, name, errors, next) ==
  /\ pc = stage
  /\ calls' = Append(calls, name)
  /\ IF errors # <<>>
     THEN /\ screen' = screen \o st_errors(errors)
          /\ pc' = st_stop(stage)
     ELSE /\ screen' = screen
          /\ pc' = next
  /\ UNCHANGED <<file, df, required_columns, column_mapping, result, metrics, ret>>

ValidateDataTypes ==
  /\ pc = "types"
  /\ Stage("types", "validate_data_types",
           validate_data_types(df, column_mapping), "duplicates")

ValidateDateDuplicates ==
  /\ pc = "duplicates"
  /\ Stage("duplicates", "validate_date_duplicates",
           validate_date_duplicates(df, column_mapping), "ordering")

ValidateDateOrdering ==
  /\ pc = "ordering"
  /\ Stage("ordering", "validate_date_ordering",
           validate_date_ordering(df, column_mapping), "numeric")

ValidateNumericRules ==
  /\ pc = "numeric"
  /\ Stage("numeric", "validate_numeric_rules",
           validate_numeric_rules(df, column_mapping), "display")

\* display_data, after which process_csv_file ends without a return
\* statement: its caller receives None.
DisplayData ==
  /\ pc = "display"
  /\ calls' = Append(calls, "display_data")
  /\ screen' = Append(screen, [kind |-> "dataframe", body |-> head(df)])
  /\ result' = None
  /\ pc' = "returned"
  /\ UNCHANGED <<file, df, required_columns, column_mapping, metrics, ret>>

\* app.py after process_csv_file has returned
AppMain ==
  /\ pc = "returned"
  /\ IF result # None
     THEN /\ metrics' = calculate_metrics(result[1], result[2])
          /\ calls' = calls \o <<"calculate_metrics", "display_metrics",
                                  "display_progress_chart",
                                  "display_daily_activity_chart">>
          /\ screen' = screen \o
               <<[kind |-> "dataframe", body |-> result[1].rows],
                 [kind |-> "metrics", body |-> metrics'],
                 [kind |-> "chart", body |-> create_progress_chart(result[1], result[2])],
                 [kind |-> "chart",
                  body |-> create_daily_activity_chart(result[1], result[2])]>>
     ELSE UNCHANGED <<metrics, calls, screen>>
  /\ pc' = "done"
  /\ UNCHANGED <<file, df, required_columns, column_mapping, result, ret>>

Next ==
  \/ ReadCsv
  \/ ValidateColumns
  \/ ValidateDataTypes
  \/ ValidateDateDuplicates
  \/ ValidateDateOrdering
  \/ ValidateNumericRules
  \/ DisplayData
  \/ AppMain

Spec == Init /\ [][Next]_vars

(***************************************************************************)
(* The functions of csv_validator.py and metrics.py called on their own    *)
(***************************************************************************)
\* One call: ret holds the function called and what it returned.
Called(fn, value) ==
  /\ pc = "library"
  /\ ret.fn = "none"
  /\ ret' = [fn |-> fn, value |-> value]
  /\ UNCHANGED <<file, df, required_columns, pc, column_mapping, calls, screen,
                 result, metrics>>

InitLibrary ==
  /\ file = None
  /\ pc = "library"
  /\ calls = <<>>
  /\ screen = <<>>
  /\ result = Pending
  /\ metrics = None
  /\ ret = NotCalled

CallValidateColumns ==
  Called("validate_columns", validate_columns(df.columns, required_columns))

CallValidateDateDuplicates ==
  Called("validate_date_duplicates", validate_date_duplicates(df, column_mapping))

CallValidateDateOrdering ==
  Called("validate_date_ordering", validate_date_ordering(df, column_mapping))

CallValidateNumericRules ==
  Called("validate_numeric_rules", validate_numeric_rules(df, column_mapping))

\* calculate_metrics reads the to and count columns as numbers: it is called
\* on tables without an empty cell in them.
CallCalculateMetrics ==
  /\ ~isna_any(Column(df, column_mapping[ToName]))
  /\ ~isna_any(Column(df, column_mapping[CountName]))
  /\ Called("calculate_metrics", calculate_metrics(df, column_mapping))

\* validate_columns on every list of headers and of required names.  A header
\* is a name in some casing between blanks.
HeaderCores == {<<"d">>, <<"D">>, <<"D", "d">>, <<"x">>}

Headers ==
  {l \o c \o r : l \in {<<>>, <<" ", " ">>}, c \in HeaderCores, r \in {<<>>, <<" ">>}}

RequiredNames == {<<"d">>, <<"d", "D">>, <<" ", "d">>}

InitColumns ==
  /\ InitLibrary
  /\ \E h \in SeqsUpTo(Headers, MaxHeaders) : df = [columns |-> h, rows |-> <<>>]
  /\ required_columns \in SeqsUpTo(RequiredNames, MaxRequired)
  /\ column_mapping = None

SpecColumns == InitColumns /\ [][CallValidateColumns]_vars

\* The two checks of the date column on every sequence of dates.
InitDates ==
  /\ InitLibrary
  /\ \E s \in SeqsUpTo(DateCells, MaxDates) :
        df = [columns |-> <<DateName>>, rows |-> [i \in DOMAIN s |-> <<s[i]>>]]
  /\ required_columns = <<DateName>>
  /\ column_mapping = validate_columns(df.columns, required_columns).column_mapping

NextDates == CallValidateDateDuplicates \/ CallValidateDateOrdering

SpecDates == InitDates /\ [][NextDates]_vars

\* The checks and the metrics on the tables that reach validate_numeric_rules
\* in process_csv_file: the dates ascend strictly, and from, to and count
\* are numbers or empty cells.
AscendingDates(k) ==
  {s \in [1..k -> DateCells] : is_monotonic_increasing_strict(to_datetime(s))}

NumericCells(S) == {[num |-> n] : n \in S} \cup {NaN}

NumericTriples == NumericCells(Values) \X NumericCells(Values) \X NumericCells(Counts)

InitRules ==
  /\ InitLibrary
  /\ \E k \in 0..MaxRows :
       \E ds \in AscendingDates(k), ns \in [1..k -> NumericTriples] :
         df = [columns |-> RequiredColumns,
               rows |-> [i \in 1..k |-> <<ds[i]>> \o ns[i]]]
  /\ required_columns = RequiredColumns
  /\ column_mapping = validate_columns(df.columns, required_columns).column_mapping

NextRules ==
  \/ CallValidateDateDuplicates
  \/ CallValidateDateOrdering
  \/ CallValidateNumericRules
  \/ CallCalculateMetrics

SpecRules == InitRules /\ [][NextRules]_vars

(***************************************************************************)
(* Properties                                                              *)
(***************************************************************************)
Range(s) == {s[i] : i \in DOMAIN s}

ErrorShown == \E i \in DOMAIN screen : screen[i].kind = "error"

ErrorsOnScreen == SelectSeq(screen, LAMBDA e : e.kind = "error")

\* The cells of the table by their place in the row: date, from, to, count.
DateOf(r) == r[1].day * 24 + r[1].hour

DayOf(r) == r[1].day

RowConsistent(r) == r[3].num >= r[2].num /\ r[4].num = r[3].num - r[2].num + 1

RowsNumeric(t) == \A i \in DOMAIN t.rows : \A j \in 2..4 : t.rows[i][j] \notin {NaN, Text}

DatesStrictlyAscending(t) ==
  \A i, j \in DOMAIN t.rows : i < j => DateOf(t.rows[i]) < DateOf(t.rows[j])

\* The upload parses and every validation stage accepts it.
PassesValidation ==
  /\ file.kind = "csv"
  /\ LET r == validate_columns(file.table.columns, RequiredColumns)
     IN  /\ r.missing_columns = <<>>
         /\ validate_data_types(file.table, r.column_mapping) = <<>>
         /\ validate_date_duplicates(file.table, r.column_mapping) = <<>>
         /\ validate_date_ordering(file.table, r.column_mapping) = <<>>
         /\ validate_numeric_rules(file.table, r.column_mapping) = <<>>

\* C1: when the run of app.py on an upload that passes every validation
\* stage has ended, a Metrics record was computed and the data preview and
\* both charts were shown (stated for the uploads with at least one row, on
\* which every metric is defined).
C1_SuccessPathComputesMetrics ==
  (pc = "done" /\ PassesValidation /\ file.table.rows # <<>>) =>
    /\ metrics # None
    /\ "calculate_metrics" \in Range(calls)
    /\ Cardinality({i \in DOMAIN screen : screen[i].kind = "chart"}) = 2
    /\ \E i \in DOMAIN screen : screen[i].kind = "dataframe"

\* C2: once a stage has reported an error, nothing more is invoked: no later
\* validation stage, no calculate_metrics, no chart builder, and nothing
\* more is shown.
C2_ErrorHaltsPipeline ==
  [][ErrorShown => (calls' = calls /\ metrics' = metrics /\ screen' = screen)]_vars

C2_Witness ==
  /\ pc = "stopped"
  /\ ErrorShown
  /\ calls[Len(calls)] = "validate_date_duplicates"

\* C3: a table that process_csv_file accepts (display_data is reached) has
\* dates that are pairwise distinct and strictly increasing in row order,
\* and every row has to >= from and count = to - from + 1.
C3_AcceptedTableIsConsistent ==
  "display_data" \in Range(calls) =>
    /\ \A i, j \in DOMAIN df.rows : i # j => DateOf(df.rows[i]) # DateOf(df.rows[j])
    /\ DatesStrictlyAscending(df)
    /\ \A i \in DOMAIN df.rows : RowConsistent(df.rows[i])

C3_Witness ==
  /\ pc = "done"
  /\ "display_data" \in Range(calls)
  /\ Len(df.rows) >= 2

\* C4: on a table whose rows all have to >= from and count = to - from + 1
\* and whose dates are unique and strictly ascending, each of
\* validate_date_duplicates, validate_date_ordering and
\* validate_numeric_rules returns no error.
C4_ValidTableIsNotRejected ==
  ( /\ ret.fn \in {"validate_date_duplicates", "validate_date_ordering",
                    "validate_numeric_rules"}
    /\ RowsNumeric(df)
    /\ \A i \in DOMAIN df.rows : RowConsistent(df.rows[i])
    /\ DatesStrictlyAscending(df) )
  => ret.value = <<>>

C4_Witness ==
  /\ ret.fn = "validate_numeric_rules"
  /\ Len(df.rows) >= 2
  /\ RowsNumeric(df)
  /\ \A i \in DOMAIN df.rows : RowConsistent(df.rows[i])
  /\ ret.value = <<>>

\* The messages of the consistency checks on the table df, stage by stage.
DuplicateErrors == validate_date_duplicates(df, column_mapping)

OrderingErrors == validate_date_ordering(df, column_mapping)

NumericErrors == validate_numeric_rules(df, column_mapping)

FirstFailingStageErrors ==
  IF DuplicateErrors # <<>> THEN DuplicateErrors
  ELSE IF OrderingErrors # <<>> THEN OrderingErrors
  ELSE NumericErrors

ReachedConsistencyChecks == "validate_date_duplicates" \in Range(calls)

\* C5 as stated: a run that stops in the consistency checks has shown the
\* message of every violated check.
C5_EveryViolatedCheckSurfaced ==
  (pc = "stopped" /\ ReachedConsistencyChecks) =>
    \A e \in Range(DuplicateErrors \o OrderingErrors \o NumericErrors) :
      st_error(e) \in Range(screen)

\* C5 as amended: a run that stops in the consistency checks has shown the
\* messages of the first failing stage (duplicates, then ordering, then the
\* numeric rules) and no other; the range and the count message, both of the
\* numeric stage, are shown together.
C5_FirstFailingStageSurfaced ==
  (pc = "stopped" /\ ReachedConsistencyChecks) =>
    ErrorsOnScreen = st_errors(FirstFailingStageErrors)

C5_Witness ==
  /\ pc = "stopped"
  /\ ReachedConsistencyChecks
  /\ DuplicateErrors # <<>>
  /\ Len(NumericErrors) = 2
  /\ ErrorsOnScreen = st_errors(DuplicateErrors)

\* The date cells of the table in row order, and the timestamps they name.
DateColumn == [i \in DOMAIN df.rows |-> df.rows[i][1]]

Timestamps == [i \in DOMAIN df.rows |-> DateOf(df.rows[i])]

RepeatsPrevious == \E i \in 1..(Len(df.rows) - 1) : Timestamps[i + 1] = Timestamps[i]

Decreases == \E i \in 1..(Len(df.rows) - 1) : Timestamps[i + 1] < Timestamps[i]

\* C6 as stated: validate_date_ordering emits the ordering error whenever
\* some row's date equals the previous row's date.
C6_OrderingRejectsRepeatedDate ==
  (ret.fn = "validate_date_ordering" /\ RepeatsPrevious) => ret.value # <<>>

\* C6 as amended: validate_date_ordering emits the ordering error exactly
\* when some row's date is earlier than the previous row's date; a date
\* equal to the previous one does not trip it.
C6_OrderingRejectsOnlyDecrease ==
  ret.fn = "validate_date_ordering" => (ret.value # <<>> <=> Decreases)

C6_Witness ==
  /\ ret.fn = "validate_date_ordering"
  /\ RepeatsPrevious
  /\ ret.value = <<>>
  /\ validate_date_duplicates(df, column_mapping) # <<>>

Occurrences(c) == {i \in DOMAIN DateColumn : DateColumn[i] = c}

Repeated == {c \in Range(DateColumn) : Cardinality(Occurrences(c)) >= 2}

FirstOccurrence(c) == CHOOSE i \in Occurrences(c) : \A j \in Occurrences(c) : i <= j

SecondOccurrence(c) ==
  CHOOSE i \in Occurrences(c) \ {FirstOccurrence(c)} :
    \A j \in Occurrences(c) \ {FirstOccurrence(c)} : i <= j

\* One message that lists the day of each repeated date once, in the order
\* of the positions pos gives them; no message when no date is repeated.
DuplicatesListedBy(pos(_)) ==
  IF Repeated = {} THEN <<>>
  ELSE <<[msg |-> "duplicate_dates",
          dates |-> [k \in 1..Cardinality(Repeated) |->
                       (CHOOSE c \in Repeated :
                          Cardinality({u \in Repeated : pos(u) < pos(c)}) = k - 1).day]]>>

\* C7 as stated: validate_date_duplicates lists each repeated date once, in
\* the order of the dates' first occurrences.
C7_ListedByFirstOccurrence ==
  ret.fn = "validate_date_duplicates" => ret.value = DuplicatesListedBy(FirstOccurrence)

\* C7 as amended: validate_date_duplicates lists each repeated date once, in
\* the order of the dates' first repeats (their second occurrences), and
\* returns nothing when no date is repeated.
C7_ListedBySecondOccurrence ==
  ret.fn = "validate_date_duplicates" => ret.value = DuplicatesListedBy(SecondOccurrence)

C7_Witness ==
  /\ ret.fn = "validate_date_duplicates"
  /\ Cardinality(Repeated) >= 2
  /\ DuplicatesListedBy(FirstOccurrence) # DuplicatesListedBy(SecondOccurrence)

\* lowercase(trim(header)), and the headers that differ from a header in the
\* case of one letter or in one blank at an end.
Trim(h) ==
  LET inked == {i \in DOMAIN h : h[i] # " "}
  IN  IF inked = {} THEN <<>>
      ELSE SubSeq(h, CHOOSE i \in inked : \A j \in inked : i <= j,
                     CHOOSE i \in inked : \A j \in inked : j <= i)

LowerTrim(h) == lower(Trim(h))

SwapCase(c) ==
  CASE c = "d" -> "D"
    [] c = "D" -> "d"
    [] c = "x" -> "X"
    [] c = "X" -> "x"
    [] OTHER -> c

HeaderVariants(h) ==
  {<<" ">> \o h, h \o <<" ">>}
  \cup {[h EXCEPT ![i] = SwapCase(h[i])] : i \in DOMAIN h}
  \cup (IF h # <<>> /\ h[1] = " " THEN {Tail(h)} ELSE {})
  \cup (IF h # <<>> /\ h[Len(h)] = " " THEN {SubSeq(h, 1, Len(h) - 1)} ELSE {})

ColumnVariants(cols) ==
  {[cols EXCEPT ![k] = w] : <<k, w>> \in
     UNION {{<<k, w>> : w \in HeaderVariants(cols[k])} : k \in DOMAIN cols}}

Matched(name, cols) == \E i \in DOMAIN cols : LowerTrim(cols[i]) = lower(name)

\* C8: validate_columns maps a required name exactly when some header equals
\* it up to case and surrounding blanks, and then to such a header; the
\* missing list is the unmatched names in the order of required_columns; and
\* which names are mapped or missing, and the place of the header a name is
\* mapped to, do not change with the case or the padding of the headers.
C8_ColumnsPartitioned ==
  ret.fn = "validate_columns" =>
    LET cols == df.columns
        cm == ret.value.column_mapping
    IN  /\ DOMAIN cm = {n \in Range(required_columns) : Matched(n, cols)}
        /\ \A n \in DOMAIN cm : cm[n] \in Range(cols) /\ LowerTrim(cm[n]) = lower(n)
        /\ ret.value.missing_columns =
             SelectSeq(required_columns, LAMBDA n : ~Matched(n, cols))
        /\ \A v \in ColumnVariants(cols) :
             LET r2 == validate_columns(v, required_columns)
             IN  /\ DOMAIN r2.column_mapping = DOMAIN cm
                 /\ r2.missing_columns = ret.value.missing_columns
                 /\ \A n \in DOMAIN cm :
                      \E k \in DOMAIN cols : cols[k] = cm[n] /\ v[k] = r2.column_mapping[n]

C8_Witness ==
  /\ ret.fn = "validate_columns"
  /\ ret.value.missing_columns # <<>>
  /\ \E n \in DOMAIN ret.value.column_mapping :
       /\ n # lower(n)
       /\ ret.value.column_mapping[n] # Trim(ret.value.column_mapping[n])
       /\ Trim(ret.value.column_mapping[n]) # LowerTrim(ret.value.column_mapping[n])

HasNaN == \E i \in DOMAIN df.rows : \E j \in 2..4 : df.rows[i][j] = NaN

DaysOf(rows) == [k \in DOMAIN rows |-> DayOf(rows[k])]

RangeViolators == SelectSeq(df.rows, LAMBDA r : r[3].num < r[2].num)

CountViolators == SelectSeq(df.rows, LAMBDA r : r[4].num # r[3].num - r[2].num + 1)

\* C9: when a from, to or count cell is NaN, validate_numeric_rules returns
\* the one generic error alone; otherwise it returns the range message, if a
\* row has to < from, and then the count message, if a row has
\* count # to - from + 1, each listing the dates of exactly its violating
\* rows in row order.
C9_NumericRulesMessages ==
  ret.fn = "validate_numeric_rules" =>
    ret.value =
      IF HasNaN THEN <<[msg |-> "invalid_numeric_values"]>>
      ELSE (IF RangeViolators # <<>>
            THEN <<[msg |-> "to_lt_from", dates |-> DaysOf(RangeViolators)]>>
            ELSE <<>>)
           \o (IF CountViolators # <<>>
               THEN <<[msg |-> "count_mismatch", dates |-> DaysOf(CountViolators)]>>
               ELSE <<>>)

C9_Witness ==
  /\ ret.fn = "validate_numeric_rules"
  /\ Len(ret.value) = 2
  /\ ret.value[1].dates # ret.value[2].dates
  /\ Len(ret.value[2].dates) < Len(df.rows)

\* C10: on a table with at least one row that validate_numeric_rules
\* accepts, every count is at least 1, the mean of count is positive and
\* calculate_metrics produces estimated_completion_years, not None.
C10_EstimateAlwaysProduced ==
  ( /\ ret.fn = "calculate_metrics"
    /\ df.rows # <<>>
    /\ validate_numeric_rules(df, column_mapping) = <<>> )
  => /\ \A i \in DOMAIN df.rows : df.rows[i][4].num >= 1
     /\ GreaterThanZero(ret.value.daily_throughput)
     /\ ret.value.estimated_completion_years # None

C10_Witness ==
  /\ ret.fn = "calculate_metrics"
  /\ Len(df.rows) >= 2
  /\ validate_numeric_rules(df, column_mapping) = <<>>
  /\ ret.value.estimated_completion_years # None

====
